---- MODULE Spec2Model ----
(***************************************************************************)
(* The collection pipeline (CollectNewsFromSource, insertNewsWithBatch,    *)
(* RemoveKeyContaining) and the cached read path (GetNews) of the OneFeed  *)
(* backend, together with the retention sweep (RemoveOldNews).             *)
(*                                                                         *)
(* Strings that the code takes apart or concatenates (links, source names) *)
(* are sequences of one-character strings; every other string is opaque.   *)
(***************************************************************************)
EXTENDS Integers, Sequences, FiniteSets, TLC

(***************************************************************************)
(* Bounds of the model.                                                    *)
(***************************************************************************)
\* SpecRun, collection runs one after the other: how many runs, retention
\* sweeps and failures (errors and timeouts of the environment) it explores
RunRuns == 2
RunSweeps == 1
RunFaults == 2
\* SpecRead, concurrent GetNews calls: how many calls, sweeps and failures
ReadCalls == 3
ReadSweeps == 1
ReadFaults == 2
\* Spec, GetNews calls concurrent with a collection run
ConcRuns == 1
ConcCalls == 2
ConcFaults == 1
\* SpecTwo, two collection runs at once
TwoRuns == 2
TwoSweeps == 1
TwoFaults == 1
\* SpecBatch, insertNewsWithBatch with batches of 100: the longest list
BatchItems == 201
\* SpecLive, collection runs under fair scheduling: how many runs and failures
LiveRuns == 1
LiveFaults == 2
\* SpecLink, sanitizeLink: the longest raw link
MaxLinkLen == 4
\* SpecWide, GetNews calls with pages up to the largest int32
WideCalls == 2
WideFaults == 1
\* SpecPage, GetNews calls with pages and page sizes at the limits
PageCalls == 2
PageFaults == 1
\* records per INSERT statement: `const batchSize = 100' in the source, scaled
\* down so that a run of a few records needs more than one batch
BatchSize == 2
\* the value of NOW() (in days)
Now0 == 100

(***************************************************************************)
(* Program constants.                                                      *)
(***************************************************************************)
\* INTERVAL '30 days' of RemoveNewsByPublishedDate
RetentionDays == 30
\* the largest value of Page int32
MaxInt32 == 2147483647
\* const batchSize = 100 of insertNewsWithBatch
batchSize == 100
\* time.Time{}: earlier than every publish time a feed can carry
ZeroTime == 0
\* the default page and page size of GetNews, and the largest page size
DefaultPage == 1
DefaultLimit == 20
MaxLimit == 100

\* a nil image, and a nil *time.Time or NULL timestamp (a time t is <<t>>)
Null == "null"
NilTime == <<>>

Min(a, b) == IF a < b THEN a ELSE b

\* a * b as Go computes it on int32 (the low 32 bits of the product, signed),
\* for 0 <= a < 2^31 and 0 <= b < 2^15, by 16-bit halves
Mul32(a, b) ==
    LET t == (a % 65536) * b
        u == ((a \div 65536) * b + t \div 65536) % 65536
    IN  (IF u >= 32768 THEN u - 65536 ELSE u) * 65536 + (t % 65536)

(***************************************************************************)
(* The source catalog and the upstream feeds.                              *)
(***************************************************************************)
SrcA == <<"a">>
SrcB == <<"b">>
SrcAB == <<"a", " ", "b">>

\* the rows of table sources: GetAllSources returns them all
Sources == {SrcA, SrcB}

LinkX == <<"x">>
LinkY == <<"y">>
LinkZ == <<"z">>
\* a composite link "x|y"
LinkXY == <<"x", "|", "y">>
\* a composite link "y|" whose last segment is empty
LinkYE == <<"y", "|">>
LinkE == <<>>

\* a gofeed.Item: the fields CollectNewsFromSource reads
Item(t, l, p, img, enc, html) ==
    [Title |-> t, Link |-> l, PublishedParsed |-> p,
     Image |-> img, Enclosures |-> enc, HtmlImg |-> html]

\* publish times: 50 is older than the retention window at Now0, 90 and 95 are not
ItX == Item("tx", LinkX, <<90>>, "ix", <<>>, "")
ItXold == Item("tx0", LinkX, <<50>>, Null, <<"ex">>, "")
ItY == Item("ty", LinkY, <<95>>, Null, <<>>, "hy")
ItYnull == Item("ty0", LinkXY, NilTime, Null, <<>>, "")
ItZ == Item("tz", LinkZ, <<90>>, Null, <<>>, "")
ItE == Item("te", LinkE, <<95>>, Null, <<>>, "")
ItE2 == Item("te2", LinkYE, NilTime, Null, <<>>, "")

\* what the feeds of the sources hold: many links, links shared between
\* sources, composite and empty links, absent and tied publish times
FeedChoices ==
    { [s \in Sources |-> IF s = SrcA THEN <<ItX, ItYnull>> ELSE <<ItY, ItZ>>],
      [s \in Sources |-> IF s = SrcA THEN <<ItXold, ItZ>> ELSE <<ItX>>],
      [s \in Sources |-> IF s = SrcA THEN <<ItE, ItE2>> ELSE <<ItYnull>>],
      [s \in Sources |-> IF s = SrcA THEN <<ItXold>> ELSE <<>>] }

(***************************************************************************)
(* Item normalisation.                                                     *)
(***************************************************************************)
RECURSIVE Split(_, _)
\* a split at the first separator only (a variant C27 must reject)
SplitOnce(raw, sep) ==
    IF \E i \in 1..Len(raw) : raw[i] = sep
    THEN LET i == CHOOSE k \in 1..Len(raw) :
                      raw[k] = sep /\ \A j \in 1..(k - 1) : raw[j] # sep
         IN  <<SubSeq(raw, 1, i - 1), SubSeq(raw, i + 1, Len(raw))>>
    ELSE <<raw>>
\* strings.Split(raw, sep): the segments of raw between the separators
Split(raw, sep) ==
    IF \E i \in 1..Len(raw) : raw[i] = sep
    THEN LET i == CHOOSE k \in 1..Len(raw) :
                      raw[k] = sep /\ \A j \in 1..(k - 1) : raw[j] # sep
         IN  <<SubSeq(raw, 1, i - 1)>> \o Split(SubSeq(raw, i + 1, Len(raw)), sep)
    ELSE <<raw>>

sanitizeLink(raw) ==
    IF raw = <<>> THEN <<>>
    ELSE LET parts == Split(raw, "|")
         IN  IF Len(parts) > 1 THEN parts[Len(parts)] ELSE raw

extractImage(item) ==
    IF item.Image # Null THEN item.Image
    ELSE IF Len(item.Enclosures) > 0 THEN item.Enclosures[1]
    ELSE item.HtmlImg

\* the bulkInsertNewsParams a worker builds from one item of the feed of src
Normalize(item, src) ==
    [Title |-> item.Title, Link |-> sanitizeLink(item.Link), Source |-> src,
     ImageUrl |-> extractImage(item), PublishDate |-> item.PublishedParsed]

(***************************************************************************)
(* Table news.                                                             *)
(***************************************************************************)
Links(st) == {r.link : r \in st}

\* id BIGSERIAL: the sequence hands out an id no row of the table has
NextId(st) == IF st = {} THEN 1 ELSE 1 + CHOOSE m \in {r.id : r \in st} :
                                           \A r \in st : r.id <= m

\* the row INSERT builds from the parameters p at time t
NewRow(st, p, t) ==
    [id |-> NextId(st), title |-> p.Title, link |-> p.Link, source |-> p.Source,
     image_url |-> p.ImageUrl, publish_date |-> p.PublishDate, fetched_at |-> t]

\* ON CONFLICT (link) DO UPDATE: the row of the link takes the new values (a
\* variant C16 must reject)
OnConflictUpdate(st, p, t) ==
    {IF r.link = p.Link
     THEN [r EXCEPT !.title = p.Title, !.source = p.Source, !.image_url = p.ImageUrl,
                    !.publish_date = p.PublishDate, !.fetched_at = t]
     ELSE r : r \in st}
\* ON CONFLICT (link) DO NOTHING: the proposed row is dropped, the table stays
OnConflict(st, p, t) == st

\* an INSERT without the conflict clause on a table without the constraint (a
\* variant C7 and C9 must reject)
InsertRowAlways(st, p, t) == st \cup {NewRow(st, p, t)}
\* one row of a multi-row INSERT ... ON CONFLICT (link) DO NOTHING, link being
\* UNIQUE
InsertRow(st, p, t) ==
    IF p.Link \in Links(st) THEN OnConflict(st, p, t) ELSE st \cup {NewRow(st, p, t)}

RECURSIVE BulkInsertNews(_, _, _)
\* the statement insertNewsWithBatch builds for one batch, executed at time t:
\* its rows are inserted one after the other (the rows of the first half of
\* the batch, then on the table they leave the rows of the second half)
BulkInsertNews(st, batch, t) ==
    IF batch = <<>> THEN st
    ELSE IF Len(batch) = 1 THEN InsertRow(st, batch[1], t)
    ELSE LET h == Len(batch) \div 2
             first == BulkInsertNews(st, SubSeq(batch, 1, h), t)
         IN  IF first = st THEN BulkInsertNews(st, SubSeq(batch, h + 1, Len(batch)), t)
             ELSE BulkInsertNews(first, SubSeq(batch, h + 1, Len(batch)), t)

\* DELETE FROM news WHERE publish_date < NOW() - INTERVAL '30 days'
\* (the comparison is not true of a NULL publish_date)
RemoveNewsByPublishedDate(st, t) ==
    {r \in st : ~(r.publish_date # NilTime /\ r.publish_date[1] < t - RetentionDays)}

\* ORDER BY publish_date DESC: PostgreSQL sorts NULL as larger than every value
DescBefore(r1, r2) ==
    \/ r1.publish_date = NilTime
    \/ r2.publish_date # NilTime /\ r1.publish_date[1] >= r2.publish_date[1]

InList(x, list) == \E i \in 1..Len(list) : list[i] = x

\* the result sets ListNews can return: the rows of the sources, in any order
\* that ORDER BY allows, cut by OFFSET and LIMIT
ListNews(st, sources, offset, limit) ==
    LET match == {r \in st : InList(r.source, sources)}
        n == Cardinality(match)
        sorted == {f \in [1..n -> match] :
                     /\ \A i, j \in 1..n : i # j => f[i] # f[j]
                     /\ \A i, j \in 1..n : i < j => DescBefore(f[i], f[j])}
        skip == Min(offset, n)
    IN  {SubSeq(f, skip + 1, Min(skip + limit, n)) : f \in sorted}

(***************************************************************************)
(* State.                                                                  *)
(***************************************************************************)
\* the slots in which CollectNewsFromSource and GetNews calls execute
Runs == {1, 2}
Readers == {1, 2}

VARIABLES
    storage,   \* table news: a set of rows
    cache,     \* the Redis keys and their values: a function on the keys present
    now,       \* NOW()
    feeds,     \* what each source's feed URL serves
    run,       \* per run: the main goroutine of CollectNewsFromSource
    wk,        \* per run and source: the worker goroutine of the source
    rd,        \* per reader: the GetNews call
    left,      \* how many runs, GetNews calls, sweeps and failures may still start
    obs        \* history: what the properties need to remember of the past

vars == <<storage, cache, now, feeds, run, wk, rd, left, obs>>

\* a nil error, and the error values the code builds: a message wrapping a cause
NoErr == [msg |-> "", cause |-> ""]

IdleRun ==
    [pc |-> "idle", newsItems |-> <<>>, i |-> 0, collectDone |-> FALSE,
     mu |-> <<>>, pending |-> {}, outcome |-> "none", err |-> NoErr]

NoWorker ==
    [pc |-> "none", items |-> <<>>, idx |-> 0, localItems |-> <<>>, seen |-> <<>>]

NoReq == [Source |-> <<>>, Page |-> 0, Limit |-> 0]
NoKey == [prefix |-> "", source |-> <<>>, page |-> 0, limit |-> 0]

IdleReader ==
    [pc |-> "idle", req |-> NoReq, key |-> NoKey, news |-> <<>>,
     responses |-> <<>>, err |-> "none"]

\* history of a run: the table when it started; whether anything else has changed
\* the table since; whether it started right after a complete run; the table's
\* version when its workers had returned; whether it has added a row; whether a
\* GetNews call was in flight at any time during it; which reader made the first
\* cache read after it returned success (0: none yet, -1: that reader has
\* started another call since); whether the deadline passed with a worker still
\* running; the batch inserts and the invalidation it has issued
NoRunObs ==
    [startStore |-> {}, alone |-> FALSE, afterFull |-> FALSE, preVer |-> 0,
     grew |-> FALSE, overlap |-> FALSE, first |-> 0, cut |-> FALSE, ops |-> <<>>,
     sent |-> <<>>]

\* history of a GetNews call: the cache and storage operations it has performed;
\* the table version its list was read at; the version a call started after a
\* successful run must at least see; the list an earlier call with the same
\* parameters returned
NoExpect == [known |-> FALSE, list |-> <<>>, wrote |-> FALSE]
\* no ListNewsParams built yet
NoQuery == [Sources |-> <<>>, PageOffset |-> 0, PageLimit |-> 0, sent |-> FALSE]
\* history of a call: the request as received, the parameters of its storage
\* query, whether its cache read found the key holding an empty list, whether
\* the list it was served from the cache held a record no longer stored
NoReadObs ==
    [ops |-> <<>>, ver |-> 0, floor |-> 0, expect |-> NoExpect,
     raw |-> NoReq, query |-> NoQuery, empty |-> FALSE, gone |-> FALSE]

\* workers that call wg.Done() only after their append (a variant C28 must
\* reject)
WorkerReturnedAtEnd(w) == w.pc \in {"none", "appended"}
\* the goroutine of a worker has returned (defer wg.Done() has run)
WorkerReturned(w) ==
    w.pc \in {"none", "cancelled", "fetchErr", "fetchCancelled", "loopCancelled",
              "appended"}

RunActive(r) == run[r].pc \in {"spawned", "wait", "woken", "insert", "scan"}
ReaderActive(p) == rd[p].pc \in {"get", "db", "set"}

\* the records the worker of source s builds from the feed f serves
Records(f, s) == [i \in 1..Len(f[s]) |-> Normalize(f[s][i], s)]

\* the state the service starts in, over a table st
InitOver(st, budget) ==
    /\ storage = st
    /\ cache = [k \in {} |-> <<>>]
    /\ now = Now0
    /\ run = [r \in Runs |-> IdleRun]
    /\ wk = [r \in Runs |-> [s \in Sources |-> NoWorker]]
    /\ rd = [p \in Readers |-> IdleReader]
    /\ left = budget
    /\ obs = [run |-> [r \in Runs |-> NoRunObs],
              rd |-> [p \in Readers |-> NoReadObs],
              dbVer |-> 0, cacheVer |-> [k \in {} |-> 0], lastFull |-> FALSE,
              floor |-> 0, prev |-> [k \in {} |-> NoExpect], fails |-> {}]

\* a failure of the environment: one of the failures the budget allows
Fault(budget) == [budget EXCEPT !.faults = @ - 1]

(***************************************************************************)
(* CollectNewsFromSource.                                                  *)
(***************************************************************************)
\* slot r holds no call: none of its goroutines is left
RunSlotFree(r) ==
    /\ run[r].pc \in {"idle", "done"}
    /\ \A s \in Sources : WorkerReturned(wk[r][s])

\* a new call takes the first free slot (which slot it takes makes no difference
\* to the call)
CanStartRun(r) ==
    /\ RunSlotFree(r)
    /\ \A q \in Runs : q < r => ~RunSlotFree(q)
    /\ left.runs > 0

\* (Time passes between the calls of CollectNewsFromSource: each starts a day
\* after the one before.)
\* GetAllSources succeeds: one worker goroutine per source is spawned and the
\* main goroutine goes on to the select on done and collectCtx.Done()
StartRun(r) ==
    /\ CanStartRun(r)
    /\ run' = [run EXCEPT ![r] = [IdleRun EXCEPT !.pc = "spawned"]]
    /\ wk' = [wk EXCEPT ![r] = [s \in Sources |-> [NoWorker EXCEPT !.pc = "init"]]]
    /\ left' = [left EXCEPT !.runs = @ - 1]
    /\ obs' = [obs EXCEPT !.run[r] =
                 [NoRunObs EXCEPT !.startStore = storage, !.alone = TRUE,
                                  !.afterFull = obs.lastFull,
                                  !.overlap = \E p \in Readers : ReaderActive(p)],
                          !.prev = [k \in {} |-> NoExpect],
                          !.rd = [p \in Readers |-> [@[p] EXCEPT !.expect = NoExpect]]]
    /\ now' = now + 1
    /\ UNCHANGED <<storage, cache, feeds, rd>>

\* a run that spawns its workers although the source list failed (a variant C20
\* must reject)
WorkersSpawned(srcs) == [s \in srcs |-> [NoWorker EXCEPT !.pc = "init"]]
\* the goroutines of a run that returned before the spawn loop: none
NoWorkers(srcs) == [s \in srcs |-> NoWorker]

\* GetAllSources fails: the error is returned at once
StartRunSourcesErr(r) ==
    /\ CanStartRun(r)
    /\ left.faults > 0
    /\ run' = [run EXCEPT ![r] = [IdleRun EXCEPT !.pc = "done", !.outcome = "sourcesErr",
                                                !.err = [msg |-> "", cause |-> "db"]]]
    /\ wk' = [wk EXCEPT ![r] = NoWorkers(Sources)]
    /\ left' = [Fault(left) EXCEPT !.runs = @ - 1]
    /\ obs' = [obs EXCEPT !.run[r] = NoRunObs]
    /\ now' = now + 1
    /\ UNCHANGED <<storage, cache, feeds, rd>>

\* the 5-minute deadline of collectCtx passes (or the caller's ctx is
\* cancelled). A main goroutine blocked in the select is woken by it, for the
\* case <-collectCtx.Done().
Deadline(r) ==
    /\ run[r].pc \in {"spawned", "wait"}
    /\ ~run[r].collectDone
    /\ left.faults > 0
    /\ run' = [run EXCEPT ![r].collectDone = TRUE,
                          ![r].pc = IF @ = "wait" THEN "woken" ELSE @]
    /\ left' = Fault(left)
    /\ obs' = [obs EXCEPT !.run[r].cut = \E s \in Sources : ~WorkerReturned(wk[r][s])]
    /\ UNCHANGED <<storage, cache, now, feeds, wk, rd>>

\* the main goroutine reaches the select with neither channel ready: it blocks
ReachSelect(r) ==
    /\ run[r].pc = "spawned"
    /\ ~run[r].collectDone
    /\ \E s \in Sources : ~WorkerReturned(wk[r][s])
    /\ run' = [run EXCEPT ![r].pc = "wait"]
    /\ UNCHANGED <<storage, cache, now, feeds, wk, rd, left, obs>>

\* the worker's first select: return if collectCtx is done, else fetch
WorkerStart(r, s) ==
    /\ wk[r][s].pc = "init"
    /\ wk' = [wk EXCEPT ![r][s].pc = IF run[r].collectDone THEN "cancelled" ELSE "fetch"]
    /\ UNCHANGED <<storage, cache, now, feeds, run, rd, left, obs>>

\* ParseURLWithContext returns the feed
WorkerFetchOk(r, s) ==
    /\ wk[r][s].pc = "fetch"
    /\ wk' = [wk EXCEPT ![r][s] = [pc |-> "loop", items |-> feeds[s], idx |-> 0,
                                   localItems |-> <<>>, seen |-> <<>>]]
    /\ UNCHANGED <<storage, cache, now, feeds, run, rd, left, obs>>

\* a failed fetch that cancels the whole run (a variant C10 must reject)
FetchFailedCancels(main) == [main EXCEPT !.collectDone = TRUE]
\* the main goroutine after a worker's fetch failed: the worker logs the error
\* and returns (wg.Done), nothing of the run is touched
FetchFailed(main) == main

\* ParseURLWithContext fails: collectCtx is done, or else a network error, an
\* unparsable feed or the 30-second timeout of the feed
WorkerFetchErr(r, s) ==
    /\ wk[r][s].pc = "fetch"
    /\ run[r].collectDone \/ left.faults > 0
    /\ wk' = [wk EXCEPT ![r][s].pc = IF run[r].collectDone THEN "fetchCancelled"
                                     ELSE "fetchErr"]
    /\ run' = [run EXCEPT ![r] = FetchFailed(@)]
    /\ left' = IF run[r].collectDone THEN left ELSE Fault(left)
    /\ UNCHANGED <<storage, cache, now, feeds, rd, obs>>

\* one pass of the item loop with feedCtx not done: the item is normalised and
\* appended to the worker's localItems
WorkerItem(r, s) ==
    /\ wk[r][s].pc = "loop"
    /\ wk[r][s].idx < Len(wk[r][s].items)
    /\ ~run[r].collectDone
    /\ wk' = [wk EXCEPT ![r][s].idx = @ + 1,
                        ![r][s].localItems =
                            Append(@, Normalize(wk[r][s].items[wk[r][s].idx + 1], s))]
    /\ UNCHANGED <<storage, cache, now, feeds, run, rd, left, obs>>

\* one pass of the item loop with feedCtx done (its own 30 seconds have passed,
\* or collectCtx is done): the worker returns
WorkerItemCancelled(r, s) ==
    /\ wk[r][s].pc = "loop"
    /\ wk[r][s].idx < Len(wk[r][s].items)
    /\ run[r].collectDone \/ left.faults > 0
    /\ wk' = [wk EXCEPT ![r][s].pc = "loopCancelled"]
    /\ left' = IF run[r].collectDone THEN left ELSE Fault(left)
    /\ UNCHANGED <<storage, cache, now, feeds, run, rd, obs>>

\* a lock that never blocks (a variant C23 must reject)
LockFreeAlways(mu) == TRUE
\* mu.Lock() returns: no goroutine holds mu
LockFree(mu) == mu = <<>>

\* mu.Lock() after the item loop, and the read of the slice newsItems that the
\* append starts with
WorkerLock(r, s) ==
    /\ wk[r][s].pc = "loop"
    /\ wk[r][s].idx = Len(wk[r][s].items)
    /\ LockFree(run[r].mu)
    /\ run' = [run EXCEPT ![r].mu = s]
    /\ wk' = [wk EXCEPT ![r][s].pc = "locked", ![r][s].seen = run[r].newsItems]
    /\ UNCHANGED <<storage, cache, now, feeds, rd, left, obs>>

\* the write of newsItems = append(newsItems, localItems...), the slice read
\* with the local list after it; mu.Unlock(); the worker returns
WorkerAppend(r, s) ==
    /\ wk[r][s].pc = "locked"
    /\ run' = [run EXCEPT ![r].newsItems = wk[r][s].seen \o wk[r][s].localItems,
                          ![r].mu = <<>>]
    /\ wk' = [wk EXCEPT ![r][s].pc = "appended"]
    /\ UNCHANGED <<storage, cache, now, feeds, rd, left, obs>>

\* a done channel closed when the first worker returns (a variant C29 must
\* reject)
DoneClosedEarly(ws) == \E s \in DOMAIN ws : WorkerReturned(ws[s])
\* wg.Wait() has returned and close(done) has run: every worker has returned
DoneClosed(ws) == \A s \in DOMAIN ws : WorkerReturned(ws[s])

\* select, case <-done: every worker has returned and done is closed, which
\* wakes a main goroutine blocked in the select, or is found ready by one that
\* reaches the select (one of the ready cases is chosen at random)
WaitDone(r) ==
    /\ run[r].pc \in {"spawned", "wait"}
    /\ DoneClosed(wk[r])
    /\ run' = [run EXCEPT ![r].pc = "insert"]
    /\ obs' = [obs EXCEPT !.run[r].preVer = obs.dbVer]
    /\ UNCHANGED <<storage, cache, now, feeds, wk, rd, left>>

\* select, case <-collectCtx.Done(): the timeout error is returned
WaitTimeout(r) ==
    /\ run[r].pc = "woken" \/ (run[r].pc = "spawned" /\ run[r].collectDone)
    /\ run' = [run EXCEPT ![r].pc = "done", ![r].outcome = "timeout",
                          ![r].err = [msg |-> "news collection timed out",
                                      cause |-> "ctx"]]
    /\ UNCHANGED <<storage, cache, now, feeds, wk, rd, left, obs>>

\* the history after the main goroutine of run r has done op
Did(o, r, op) == [o EXCEPT !.run[r].ops = Append(@, op)]

\* a batch that stops one record short (a variant C8 must reject)
BatchShort(items, i, size) == SubSeq(items, i + 1, Min(i + size, Len(items)) - 1)
\* the batch insertNewsWithBatch is at: newsItems[i:min(i+batchSize, len)]
Batch(items, i, size) == SubSeq(items, i + 1, Min(i + size, Len(items)))

\* one pass of the loop of insertNewsWithBatch with batches of size records:
\* the INSERT succeeds
InsertBatch(r, size) ==
    /\ run[r].pc = "insert"
    /\ run[r].i < Len(run[r].newsItems)
    /\ storage' = BulkInsertNews(storage, Batch(run[r].newsItems, run[r].i, size), now)
    /\ run' = [run EXCEPT ![r].i = @ + size]
    /\ obs' = [Did(obs, r, "insert:ok") EXCEPT
                 !.run[r].sent = Append(@, Batch(run[r].newsItems, run[r].i, size)),
                 !.dbVer = IF storage' # storage THEN @ + 1 ELSE @,
                 !.run = [q \in Runs |->
                            IF q = r THEN [@[q] EXCEPT !.grew = @ \/ storage' # storage]
                            ELSE [@[q] EXCEPT !.alone = @ /\ storage' = storage]]]
    /\ UNCHANGED <<cache, now, feeds, wk, rd, left>>

\* a pass of the loop in a collection run (batches scaled down to BatchSize)
InsertBatchOk(r) == InsertBatch(r, BatchSize)

\* fmt.Errorf("batch insert failed: %w", err), built in the loop pass at index i
BatchError(i, cause) == [msg |-> "batch insert failed", cause |-> cause]

\* a failed batch that undoes the batches before it (a variant C12 must reject)
BatchFailedRollsBack(st, before) == before
\* the table after a failed INSERT, before being the table when the run
\* started: each Exec committed on its own, only the failed statement is undone
BatchFailed(st, before) == st

\* one pass of the loop of insertNewsWithBatch: the INSERT fails and the error
\* is returned
InsertBatchErr(r) ==
    /\ run[r].pc = "insert"
    /\ run[r].i < Len(run[r].newsItems)
    /\ left.faults > 0
    /\ storage' = BatchFailed(storage, obs.run[r].startStore)
    /\ run' = [run EXCEPT ![r].pc = "done", ![r].outcome = "insertErr",
                          ![r].err = BatchError(run[r].i, "db")]
    /\ left' = Fault(left)
    /\ obs' = [Did(obs, r, "insert:err") EXCEPT
                 !.fails = @ \cup {[err |-> BatchError(run[r].i, "db"),
                                    ok |-> run[r].i \div BatchSize]}]
    /\ UNCHANGED <<cache, now, feeds, wk, rd>>

(***************************************************************************)
(* The cache.                                                              *)
(***************************************************************************)
\* the keys of f other than those in K
Without(f, K) == [k \in DOMAIN f \ K |-> f[k]]
\* f with key k set to v
With(f, k, v) == [j \in DOMAIN f \cup {k} |-> IF j = k THEN v ELSE f[j]]

RECURSIVE JoinSpace(_)
JoinSpace(list) ==
    IF list = <<>> THEN <<>>
    ELSE IF Len(list) = 1 THEN list[1]
    ELSE list[1] \o <<" ">> \o JoinSpace(Tail(list))

\* fmt's %v of a []string: the elements between brackets, separated by spaces
FormatV(list) == <<"[">> \o JoinSpace(list) \o <<"]">>

\* fmt.Sprintf("news:source=%v:page=%d:limit=%d", ...): %d of different numbers
\* differs and the two numbers end the key, so the key is the three parts
redisKey(source, page, limit) ==
    [prefix |-> "news:", source |-> FormatV(source), page |-> page, limit |-> limit]

\* the glob "*news*" RemoveKeyContaining(ctx, "news") scans for
MatchesNews(k) == k.prefix = "news:"

\* a loop that may stop before the last batch (a variant C14 must reject)
LoopOverEarly(i, items) == TRUE
\* the loop condition i < len(newsItems) of insertNewsWithBatch is false
LoopOver(i, items) == i >= Len(items)

\* RemoveKeyContaining after the last batch: the first SCAN is about to be sent.
\* pending are the keys the cursor has still to pass.
ScanBegin(r) ==
    /\ run[r].pc = "insert"
    /\ LoopOver(run[r].i, run[r].newsItems)
    /\ run' = [run EXCEPT ![r].pc = "scan",
                          ![r].pending = {k \in DOMAIN cache : MatchesNews(k)}]
    /\ obs' = [Did(obs, r, "inval") EXCEPT !.lastFull =
                 \/ @
                 \/ /\ obs.run[r].alone
                    /\ \A s \in Sources : wk[r][s].pc = "appended"]
    /\ UNCHANGED <<storage, cache, now, feeds, wk, rd, left>>

\* what a successful return of the run leaves in the history
RunSucceeded(o, r) ==
    [Did(o, r, "inval:ok") EXCEPT !.floor = IF o.run[r].grew /\ o.run[r].preVer + 1 > @
                        THEN o.run[r].preVer + 1 ELSE @]

\* a scan that stops after its first page (a variant C2 must reject)
CursorZeroAtOnce(pending, K) == TRUE
\* cursor == 0 after the SCAN that returned K: the cursor has passed every key
CursorZero(pending, K) == pending = K

\* the keys one SCAN can return of those the cursor has still to pass
ScanPages(pending) == {K \in SUBSET pending : K # {} \/ pending = {}}

\* one pass of the loop of RemoveKeyContaining: SCAN returns the keys K and DEL
\* removes them; when the cursor comes back 0 the run returns success
ScanStep(r) ==
    /\ run[r].pc = "scan"
    /\ \E K \in ScanPages(run[r].pending) :
         /\ cache' = Without(cache, K)
         /\ run' = [run EXCEPT
                      ![r].pending = @ \ K,
                      ![r].pc = IF CursorZero(run[r].pending, K) THEN "done" ELSE @,
                      ![r].outcome = IF CursorZero(run[r].pending, K) THEN "success"
                                     ELSE @]
         /\ obs' = [(IF CursorZero(run[r].pending, K) THEN RunSucceeded(obs, r)
                     ELSE obs) EXCEPT
                      !.cacheVer = Without(@, K)]
    /\ UNCHANGED <<storage, now, feeds, wk, rd, left>>

\* a failed invalidation that is only logged (a variant C15 must reject)
InvalidationFailedQuietly(main) == [main EXCEPT !.pc = "done", !.outcome = "success"]
\* the run after RemoveKeyContaining returned an error: the error is returned
InvalidationFailed(main) ==
    [main EXCEPT !.pc = "done", !.outcome = "cacheErr",
                 !.err = [msg |-> "", cause |-> "redis"]]

\* SCAN or DEL fails
ScanErr(r) ==
    /\ run[r].pc = "scan"
    /\ left.faults > 0
    /\ run' = [run EXCEPT ![r] = InvalidationFailed(@)]
    /\ left' = Fault(left)
    /\ obs' = Did(obs, r, "inval:err")
    /\ UNCHANGED <<storage, cache, now, feeds, wk, rd>>

(***************************************************************************)
(* RemoveOldNews.                                                          *)
(***************************************************************************)
\* a sweep that also empties the cache (a variant C30 must reject)
SweptCacheCleared(c) == [k \in {} |-> <<>>]
\* the cache after RemoveOldNews: the function has no call to s.redis
SweptCache(c) == c

RemoveOldNews ==
    /\ left.sweeps > 0
    /\ storage' = RemoveNewsByPublishedDate(storage, now)
    /\ cache' = SweptCache(cache)
    /\ left' = [left EXCEPT !.sweeps = @ - 1]
    /\ obs' = [obs EXCEPT
                 !.lastFull = @ /\ storage' = storage,
                 !.run = [r \in Runs |-> [@[r] EXCEPT !.alone = @ /\ storage' = storage]]]
    /\ UNCHANGED <<now, feeds, run, wk, rd>>

\* the DELETE fails: the error is returned
RemoveOldNewsErr ==
    /\ left.sweeps > 0
    /\ left.faults > 0
    /\ left' = [Fault(left) EXCEPT !.sweeps = @ - 1]
    /\ UNCHANGED <<storage, cache, now, feeds, run, wk, rd, obs>>

(***************************************************************************)
(* GetNews.                                                                *)
(***************************************************************************)
\* a validation that lets every request through (a variant C4 must reject)
MissingSourceNever(req) == FALSE
\* len(req.Source) == 0
MissingSource(req) == Len(req.Source) = 0

\* if req.Page <= 0 { req.Page = 1 }
NormPage(page) == IF page <= 0 THEN DefaultPage ELSE page
\* a page size over the maximum cut down to the maximum (a variant C17 must
\* reject)
NormLimitClamp(limit) == IF limit <= 0 THEN DefaultLimit ELSE Min(limit, MaxLimit)
\* if req.Limit <= 0 || req.Limit > 100 { req.Limit = 20 }
NormLimit(limit) == IF limit <= 0 \/ limit > MaxLimit THEN DefaultLimit ELSE limit

\* PageOffset: (req.Page - 1) * req.Limit in int32 arithmetic
PageOffset(req) == Mul32(req.Page - 1, req.Limit)

\* the ListNewsParams GetNews hands to the repository
ListNewsParams(req) ==
    [Sources |-> req.Source, PageOffset |-> PageOffset(req), PageLimit |-> req.Limit,
     sent |-> TRUE]

PGTypeTimestampToTime(ts) == IF ts = NilTime THEN ZeroTime ELSE ts[1]

\* the dto.NewsListGetResponse built from one row
Response(row) ==
    [Title |-> row.title, Source |-> row.source,
     PublishedAt |-> PGTypeTimestampToTime(row.publish_date),
     Link |-> row.link,
     Image |-> IF row.image_url = Null THEN "" ELSE row.image_url]

BuildResponses(news) == [i \in 1..Len(news) |-> Response(news[i])]

Log(o, p, op) == [o EXCEPT !.rd[p].ops = Append(@, op)]

\* the history after reader p's cache read
LogGet(o, p, op) ==
    [Log(o, p, op) EXCEPT
       !.run = [r \in Runs |->
                  [@[r] EXCEPT !.first = IF run[r].outcome = "success" /\ @ = 0
                                         THEN p ELSE @]]]

\* a call that returned list under req, with the cache holding list under the
\* key, is remembered as long as no run is in progress
Remember(o, req, list) ==
    IF \E r \in Runs : RunActive(r) THEN o
    ELSE [o EXCEPT !.prev = With(@, req, [known |-> TRUE, list |-> list, wrote |-> FALSE])]

\* GetNews is entered with one of the requests RS, in the first free slot:
\* validation, normalisation of page and limit, the key
CallGetNews(p, RS) ==
    /\ rd[p].pc \in {"idle", "done"}
    /\ \A q \in Readers : q < p => ReaderActive(q)
    /\ left.reads > 0
    /\ left' = [left EXCEPT !.reads = @ - 1]
    /\ \E raw \in RS :
         IF MissingSource(raw)
         THEN /\ rd' = [rd EXCEPT ![p] = [IdleReader EXCEPT !.pc = "done", !.req = raw,
                                                           !.err = "validation"]]
              /\ obs' = [obs EXCEPT !.rd[p] = [NoReadObs EXCEPT !.raw = raw]]
         ELSE LET req == [raw EXCEPT !.Page = NormPage(@), !.Limit = NormLimit(@)]
              IN  /\ rd' = [rd EXCEPT ![p] =
                              [IdleReader EXCEPT
                                 !.pc = "get", !.req = req,
                                 !.key = redisKey(req.Source, req.Page, req.Limit)]]
                  /\ obs' = [obs EXCEPT
                               !.rd[p] = [NoReadObs EXCEPT
                                            !.raw = raw,
                                            !.floor = obs.floor,
                                            !.expect = IF req \in DOMAIN obs.prev
                                                       THEN obs.prev[req] ELSE NoExpect],
                               !.run = [r \in Runs |->
                                          [@[r] EXCEPT
                                             !.overlap = @ \/ RunActive(r),
                                             !.first = IF @ = p THEN -1 ELSE @]]]
    /\ UNCHANGED <<storage, cache, now, feeds, run, wk>>

\* a test that takes a cached empty list for a hit (a variant C19 must reject)
NonEmptyAlways(list) == TRUE
\* len(responses) > 0
NonEmpty(list) == Len(list) > 0

\* a read that never serves the cache (a variant C6 must reject)
IsHitNever(c, k) == FALSE
\* err == nil && len(responses) > 0 after s.redis.Get on key k
IsHit(c, k) == k \in DOMAIN c /\ NonEmpty(c[k])

\* s.redis.Get answers: the key holds a non-empty list (a hit: it is returned),
\* or it holds an empty list or is absent (redis.Nil). The value is the JSON of
\* the list, in which every field of a response is kept.
CacheGet(p) ==
    /\ rd[p].pc = "get"
    /\ IF IsHit(cache, rd[p].key)
       THEN /\ rd' = [rd EXCEPT ![p].pc = "done", ![p].responses = cache[rd[p].key]]
            /\ obs' = Remember([LogGet(obs, p, "get:hit") EXCEPT
                                   !.rd[p].ver = obs.cacheVer[rd[p].key],
                                   !.rd[p].gone =
                                       \E j \in 1..Len(cache[rd[p].key]) :
                                           cache[rd[p].key][j].Link \notin Links(storage)],
                               rd[p].req, cache[rd[p].key])
       ELSE /\ rd' = [rd EXCEPT ![p].pc = "db"]
            /\ obs' = [LogGet(obs, p, "get:miss") EXCEPT
                         !.rd[p].empty = rd[p].key \in DOMAIN cache]
    /\ UNCHANGED <<storage, cache, now, feeds, run, wk, left>>

\* a failed cache read that fails the request (a variant C18 must reject)
GetFailedFatal(call) == [call EXCEPT !.pc = "done", !.err = "cache"]
\* the call after s.redis.Get failed with a backend error: a warning is logged
\* and the call goes on to the database
GetFailed(call) == [call EXCEPT !.pc = "db"]

\* s.redis.Get fails with a backend error
CacheGetErr(p) ==
    /\ rd[p].pc = "get"
    /\ left.faults > 0
    /\ rd' = [rd EXCEPT ![p] = GetFailed(@)]
    /\ obs' = LogGet(obs, p, "get:err")
    /\ left' = Fault(left)
    /\ UNCHANGED <<storage, cache, now, feeds, run, wk>>

\* the ListNews query returns rows: the responses are built from them
DbQuery(p) ==
    /\ rd[p].pc = "db"
    /\ LET q == ListNewsParams(rd[p].req)
       IN  /\ q.PageOffset >= 0
           /\ \E news \in ListNews(storage, q.Sources, q.PageOffset, q.PageLimit) :
                rd' = [rd EXCEPT ![p].pc = "set", ![p].news = news,
                                 ![p].responses = BuildResponses(news)]
           /\ obs' = [Log(obs, p, "db:ok") EXCEPT !.rd[p].ver = obs.dbVer,
                                                   !.rd[p].query = q]
    /\ UNCHANGED <<storage, cache, now, feeds, run, wk, left>>

\* the ListNews query fails (PostgreSQL also rejects a negative OFFSET): the
\* error is returned
DbQueryErr(p) ==
    /\ rd[p].pc = "db"
    /\ PageOffset(rd[p].req) < 0 \/ left.faults > 0
    /\ rd' = [rd EXCEPT ![p].pc = "done", ![p].err = "database"]
    /\ obs' = [Log(obs, p, "db:err") EXCEPT !.rd[p].query = ListNewsParams(rd[p].req)]
    /\ left' = IF PageOffset(rd[p].req) < 0 THEN left ELSE Fault(left)
    /\ UNCHANGED <<storage, cache, now, feeds, run, wk>>

\* s.redis.Set stores the responses under the key; the list is returned. A key
\* that appears during a SCAN iteration may or may not be returned by it.
CacheSet(p) ==
    /\ rd[p].pc = "set"
    /\ cache' = With(cache, rd[p].key, rd[p].responses)
    /\ rd' = [rd EXCEPT ![p].pc = "done"]
    /\ \E A \in SUBSET {r \in Runs : run[r].pc = "scan"} :
         run' = [r \in Runs |->
                   IF r \in A THEN [run[r] EXCEPT !.pending = @ \cup {rd[p].key}]
                   ELSE run[r]]
    /\ LET o == [Log(obs, p, "set:ok") EXCEPT
                   !.cacheVer = With(@, rd[p].key, obs.rd[p].ver),
                   !.prev = [q \in DOMAIN @ |->
                               IF redisKey(q.Source, q.Page, q.Limit) = rd[p].key
                               THEN [@[q] EXCEPT !.wrote = TRUE] ELSE @[q]],
                   !.rd = [q \in Readers |->
                             IF q # p /\ rd[q].key = rd[p].key
                             THEN [@[q] EXCEPT !.expect.wrote = TRUE] ELSE @[q]]]
       IN  obs' = IF rd[p].responses = <<>> THEN o
                  ELSE Remember(o, rd[p].req, rd[p].responses)
    /\ UNCHANGED <<storage, now, feeds, wk, left>>

\* a failed cache write that fails the request (a variant C3 must reject)
SetFailedFatal(call) == [call EXCEPT !.pc = "done", !.responses = <<>>, !.err = "cache"]
\* the call after a failed s.redis.Set: a warning is logged and responses, nil
\* is returned
SetFailed(call) == [call EXCEPT !.pc = "done"]

\* s.redis.Set fails
CacheSetErr(p) ==
    /\ rd[p].pc = "set"
    /\ left.faults > 0
    /\ rd' = [rd EXCEPT ![p] = SetFailed(@)]
    /\ obs' = Log(obs, p, "set:err")
    /\ left' = Fault(left)
    /\ UNCHANGED <<storage, cache, now, feeds, run, wk>>

(***************************************************************************)
(* Specifications.                                                         *)
(***************************************************************************)
Collector(r) ==
    \/ StartRun(r)
    \/ StartRunSourcesErr(r)
    \/ Deadline(r)
    \/ ReachSelect(r)
    \/ \E s \in Sources :
         \/ WorkerStart(r, s)
         \/ WorkerFetchOk(r, s)
         \/ WorkerFetchErr(r, s)
         \/ WorkerItem(r, s)
         \/ WorkerItemCancelled(r, s)
         \/ WorkerLock(r, s)
         \/ WorkerAppend(r, s)
    \/ WaitDone(r)
    \/ WaitTimeout(r)
    \/ InsertBatchOk(r)
    \/ InsertBatchErr(r)
    \/ ScanBegin(r)
    \/ ScanStep(r)
    \/ ScanErr(r)

Reader(p, RS) ==
    \/ CallGetNews(p, RS)
    \/ CacheGet(p)
    \/ CacheGetErr(p)
    \/ DbQuery(p)
    \/ DbQueryErr(p)
    \/ CacheSet(p)
    \/ CacheSetErr(p)

Sweep == RemoveOldNews \/ RemoveOldNewsErr

\* SpecRun: collection runs one after the other, and retention sweeps, from an
\* empty table
InitRun ==
    /\ feeds \in FeedChoices
    /\ InitOver({}, [runs |-> RunRuns, reads |-> 0, sweeps |-> RunSweeps,
                     faults |-> RunFaults])
NextRun == Collector(1) \/ Sweep
SpecRun == InitRun /\ [][NextRun]_vars

\* the requests the readers send
ReadRequests ==
    { [Source |-> <<>>, Page |-> 1, Limit |-> 1],
      [Source |-> <<>>, Page |-> 0, Limit |-> 101],
      [Source |-> <<SrcA, SrcB>>, Page |-> 1, Limit |-> 2],
      [Source |-> <<SrcAB>>, Page |-> 1, Limit |-> 2],
      [Source |-> <<SrcA>>, Page |-> 0, Limit |-> 101],
      [Source |-> <<SrcB, SrcA>>, Page |-> 2, Limit |-> 1] }

\* SpecRead: concurrent GetNews calls and retention sweeps over the table an
\* earlier run has filled from the feeds
InitRead ==
    /\ feeds \in FeedChoices
    /\ InitOver(BulkInsertNews({}, Records(feeds, SrcA) \o Records(feeds, SrcB), Now0),
                [runs |-> 0, reads |-> ReadCalls, sweeps |-> ReadSweeps,
                 faults |-> ReadFaults])
NextRead == (\E p \in Readers : Reader(p, ReadRequests)) \/ Sweep
SpecRead == InitRead /\ [][NextRead]_vars

\* requests at and around the limits of page and page size
PageRequests ==
    { [Source |-> <<SrcA, SrcB>>, Page |-> pg, Limit |-> lm] :
        pg \in {-1, 0, 1, 2}, lm \in {-1, 0, 1, MaxLimit - 1, MaxLimit, MaxLimit + 1} }

\* SpecPage: GetNews calls of one client after another, with pages and page
\* sizes at the limits, over the table an earlier run has filled from the feeds
InitPage ==
    /\ feeds \in FeedChoices
    /\ InitOver(BulkInsertNews({}, Records(feeds, SrcA) \o Records(feeds, SrcB), Now0),
                [runs |-> 0, reads |-> PageCalls, sweeps |-> 0, faults |-> PageFaults])
NextPage == Reader(1, PageRequests)
SpecPage == InitPage /\ [][NextPage]_vars

\* the steps of the main goroutine of run r that need no failure
Main(r) ==
    \/ ReachSelect(r)
    \/ WaitDone(r)
    \/ WaitTimeout(r)
    \/ InsertBatchOk(r)
    \/ ScanBegin(r)
    \/ ScanStep(r)

\* the steps of the goroutine of source s in run r
Worker(r, s) ==
    \/ WorkerStart(r, s)
    \/ WorkerFetchOk(r, s)
    \/ WorkerFetchErr(r, s)
    \/ WorkerItem(r, s)
    \/ WorkerItemCancelled(r, s)
    \/ WorkerLock(r, s)
    \/ WorkerAppend(r, s)

\* SpecLive: a collection run from an empty table, every goroutine that can
\* take a step being scheduled in the end and every call returning
InitLive ==
    /\ feeds \in FeedChoices
    /\ InitOver({}, [runs |-> LiveRuns, reads |-> 0, sweeps |-> 0, faults |-> LiveFaults])
NextLive == Collector(1)
SpecLive ==
    /\ InitLive
    /\ [][NextLive]_vars
    /\ WF_vars(Main(1))
    /\ \A s \in Sources : WF_vars(Worker(1, s))

\* requests with pages up to the largest int32
WideRequests ==
    { [Source |-> <<SrcA, SrcB>>, Page |-> pg, Limit |-> lm] :
        pg \in {1, 2, 21474837, 21474838, 1073741825, MaxInt32}, lm \in {1, 4, MaxLimit} }

\* SpecWide: GetNews calls of one client after another, with pages up to the
\* largest int32, over the table an earlier run has filled from the feeds
InitWide ==
    /\ feeds \in FeedChoices
    /\ InitOver(BulkInsertNews({}, Records(feeds, SrcA) \o Records(feeds, SrcB), Now0),
                [runs |-> 0, reads |-> WideCalls, sweeps |-> 0, faults |-> WideFaults])
NextWide == Reader(1, WideRequests)
SpecWide == InitWide /\ [][NextWide]_vars

\* the raw links of up to MaxLinkLen characters over two letters and the
\* separator
RawLinks == UNION {[1..n -> {"x", "y", "|"}] : n \in 0..MaxLinkLen}

\* SpecLink: a worker at the item loop over a feed of one item with any raw
\* link
InitLink ==
    /\ feeds \in {[s \in Sources |->
                     IF s = SrcA THEN <<Item("t", raw, NilTime, Null, <<>>, "")>> ELSE <<>>] :
                  raw \in RawLinks}
    /\ storage = {}
    /\ cache = [k \in {} |-> <<>>]
    /\ now = Now0
    /\ run = [r \in Runs |-> IF r = 1 THEN [IdleRun EXCEPT !.pc = "spawned"] ELSE IdleRun]
    /\ wk = [r \in Runs |->
               [s \in Sources |->
                  IF r = 1 /\ s = SrcA
                  THEN [NoWorker EXCEPT !.pc = "loop", !.items = feeds[s]]
                  ELSE NoWorker]]
    /\ rd = [p \in Readers |-> IdleReader]
    /\ left = [runs |-> 0, reads |-> 0, sweeps |-> 0, faults |-> 0]
    /\ obs = [run |-> [r \in Runs |-> NoRunObs], rd |-> [p \in Readers |-> NoReadObs],
              dbVer |-> 0, cacheVer |-> [k \in {} |-> 0], lastFull |-> FALSE,
              floor |-> 0, prev |-> [k \in {} |-> NoExpect], fails |-> {}]
NextLink == WorkerItem(1, SrcA)
SpecLink == InitLink /\ [][NextLink]_vars

\* a merged collection of n records with links of their own
Merged(n) ==
    [j \in 1..n |-> [Title |-> "t", Link |-> <<j>>, Source |-> SrcA, ImageUrl |-> "",
                     PublishDate |-> <<Now0>>]]

\* SpecBatch: insertNewsWithBatch, with the batch size of the source, over a
\* merged collection of any length up to BatchItems and an empty table
InitBatch ==
    /\ feeds \in {f \in FeedChoices : f[SrcB] = <<>>}
    /\ storage = {}
    /\ cache = [k \in {} |-> <<>>]
    /\ now = Now0
    /\ \E n \in 0..BatchItems :
         run = [r \in Runs |-> IF r = 1
                                THEN [IdleRun EXCEPT !.pc = "insert", !.newsItems = Merged(n)]
                                ELSE IdleRun]
    /\ wk = [r \in Runs |-> NoWorkers(Sources)]
    /\ rd = [p \in Readers |-> IdleReader]
    /\ left = [runs |-> 0, reads |-> 0, sweeps |-> 0, faults |-> 0]
    /\ obs = [run |-> [r \in Runs |-> NoRunObs], rd |-> [p \in Readers |-> NoReadObs],
              dbVer |-> 0, cacheVer |-> [k \in {} |-> 0], lastFull |-> FALSE,
              floor |-> 0, prev |-> [k \in {} |-> NoExpect], fails |-> {}]
NextBatch == InsertBatch(1, batchSize)
SpecBatch == InitBatch /\ [][NextBatch]_vars

ConcRequests ==
    { [Source |-> <<SrcA, SrcB>>, Page |-> 1, Limit |-> 2],
      [Source |-> <<SrcA>>, Page |-> 0, Limit |-> 101] }

\* Spec: GetNews calls concurrent with a collection run, over the table an
\* earlier run has filled from the feed of the first source alone
Init ==
    /\ feeds \in {f \in FeedChoices : f[SrcB] # <<>>}
    /\ InitOver(BulkInsertNews({}, Records(feeds, SrcA), Now0),
                [runs |-> ConcRuns, reads |-> ConcCalls, sweeps |-> 0,
                 faults |-> ConcFaults])
Next == Collector(1) \/ (\E p \in Readers : Reader(p, ConcRequests))
Spec == Init /\ [][Next]_vars

\* SpecTwo: two collection runs at once and retention sweeps, over feeds of
\* which the second source's is empty
InitTwo ==
    /\ feeds \in {f \in FeedChoices : f[SrcB] = <<>>}
    /\ InitOver({}, [runs |-> TwoRuns, reads |-> 0, sweeps |-> TwoSweeps,
                     faults |-> TwoFaults])
NextTwo == (\E r \in Runs : Collector(r)) \/ Sweep
SpecTwo == InitTwo /\ [][NextTwo]_vars

(***************************************************************************)
(* Properties of GetNews (SpecRead).                                       *)
(***************************************************************************)
Returned(p) == rd[p].pc = "done"

\* C3: a GetNews call with a non-empty filter whose cache read and cache write
\* both failed with a backend error, or whose cache write alone failed, and
\* whose storage query succeeded, returns no error and exactly the list built
\* from the rows of the storage query.
C3_CacheErrorsTolerated ==
    \A p \in Readers :
        /\ Returned(p)
        /\ Len(rd[p].req.Source) > 0
        /\ obs.rd[p].ops \in {<<"get:err", "db:ok", "set:err">>,
                              <<"get:miss", "db:ok", "set:err">>}
        => /\ rd[p].err = "none"
           /\ rd[p].responses = BuildResponses(rd[p].news)
           /\ Len(rd[p].responses) = Len(rd[p].news)

\* a call returns rows of the table although every cache operation failed
C3_Witness ==
    \E p \in Readers :
        /\ Returned(p)
        /\ obs.rd[p].ops = <<"get:err", "db:ok", "set:err">>
        /\ rd[p].err = "none"
        /\ Len(rd[p].responses) = 2

\* C4: a GetNews call with an empty source filter returns a validation error and
\* no list, and has performed no cache read, no cache write and no storage
\* query, whatever its page and limit.
C4_EmptyFilterRejected ==
    \A p \in Readers :
        Returned(p) /\ Len(rd[p].req.Source) = 0
        => /\ rd[p].err = "validation"
           /\ rd[p].responses = <<>>
           /\ obs.rd[p].ops = <<>>

\* an empty filter with a page and a limit that normalisation would replace
C4_Witness ==
    \E p \in Readers :
        /\ Returned(p)
        /\ rd[p].req = [Source |-> <<>>, Page |-> 0, Limit |-> 101]
        /\ rd[p].err = "validation"

\* C5: a successful GetNews call with a non-empty filter returns at most the
\* normalised limit records, each of a source in the filter, in non-increasing
\* publish-time order (a record without a publish time included), from storage
\* or from the cache.
C5_Listing ==
    \A p \in Readers :
        Returned(p) /\ rd[p].err = "none" /\ Len(rd[p].req.Source) > 0
        => LET out == rd[p].responses
           IN  /\ Len(out) <= rd[p].req.Limit
               /\ \A i \in 1..Len(out) : InList(out[i].Source, rd[p].req.Source)
               /\ \A i, j \in 1..Len(out) :
                    i < j => out[i].PublishedAt >= out[j].PublishedAt

\* a list read from storage in which a record without a publish time precedes a
\* record with one
C5_Witness ==
    \E p \in Readers :
        /\ Returned(p)
        /\ obs.rd[p].ops = <<"get:miss", "db:ok", "set:ok">>
        /\ Len(rd[p].news) = 2
        /\ rd[p].news[1].publish_date = NilTime
        /\ rd[p].news[2].publish_date # NilTime
        /\ rd[p].responses[1].PublishedAt < rd[p].responses[2].PublishedAt

\* C6, as stated: a GetNews call repeating one that returned a non-empty list
\* held by the cache, with no collection run in between (and, here, no failure
\* of the cache or of storage either), performs the cache read only and returns
\* the identical list.
C6_RepeatIdentical ==
    \A p \in Readers :
        Returned(p) /\ obs.rd[p].expect.known /\ left.faults = ReadFaults
        => /\ obs.rd[p].ops = <<"get:hit">>
           /\ rd[p].responses = obs.rd[p].expect.list

\* C6, amended: the same, for a repeat whose cache read does not fail and with
\* no cache write to the key between the two calls' cache accesses.
C6_HitServed ==
    \A p \in Readers :
        /\ Returned(p)
        /\ obs.rd[p].expect.known
        /\ ~obs.rd[p].expect.wrote
        /\ obs.rd[p].ops[1] # "get:err"
        => /\ obs.rd[p].ops = <<"get:hit">>
           /\ rd[p].err = "none"
           /\ rd[p].responses = obs.rd[p].expect.list

\* a repeat served from the cache a list that storage no longer yields
C6_Witness ==
    \E p \in Readers :
        /\ Returned(p)
        /\ obs.rd[p].expect.known
        /\ ~obs.rd[p].expect.wrote
        /\ obs.rd[p].ops = <<"get:hit">>
        /\ \A news \in ListNews(storage, rd[p].req.Source, PageOffset(rd[p].req),
                                rd[p].req.Limit) :
             BuildResponses(news) # rd[p].responses

(***************************************************************************)
(* Properties of CollectNewsFromSource (SpecRun, SpecTwo).                 *)
(***************************************************************************)
SeqToSet(q) == {q[i] : i \in 1..Len(q)}

\* the links, as stored, of the items the feed of source s serves
FeedLinks(s) == {sanitizeLink(it.Link) : it \in SeqToSet(feeds[s])}

InsertsDone(r) == run[r].pc \in {"scan", "done"} /\ run[r].i >= Len(run[r].newsItems)

\* C7: a run that starts right after a run which fetched every source and
\* stored every batch, the feeds unchanged and no sweep deleting in between,
\* inserts no row: storage stays what it was when the second run started, and no
\* link is stored twice.
C7_SecondRunNoOp ==
    obs.run[1].afterFull /\ obs.run[1].alone
    => /\ storage = obs.run[1].startStore
       /\ Cardinality(Links(storage)) = Cardinality(storage)

\* a second run that has sent its batches, three records or more, and succeeded
C7_Witness ==
    /\ obs.run[1].afterFull
    /\ obs.run[1].alone
    /\ run[1].pc = "done"
    /\ run[1].outcome = "success"
    /\ Len(run[1].newsItems) >= 3
    /\ run[1].i >= Len(run[1].newsItems)

\* C8: after a run that started on an empty table, in which every source was
\* fetched and appended its records, the deadline did not pass and every batch
\* was stored, the number of rows equals the number of distinct sanitized links
\* over the items of all the feeds.
C8_RowCount ==
    /\ obs.run[1].startStore = {}
    /\ obs.run[1].alone
    /\ \A s \in Sources : wk[1][s].pc = "appended"
    /\ ~run[1].collectDone
    /\ InsertsDone(1)
    => Cardinality(storage) = Cardinality(UNION {FeedLinks(s) : s \in Sources})

\* such a run over feeds in which a link occurs twice after sanitizing, stored
\* in more than one batch
C8_Witness ==
    /\ obs.run[1].startStore = {}
    /\ obs.run[1].alone
    /\ \A s \in Sources : wk[1][s].pc = "appended"
    /\ run[1].pc = "done"
    /\ run[1].outcome = "success"
    /\ Len(run[1].newsItems) > BatchSize
    /\ Cardinality(storage) < Len(run[1].newsItems)

\* C9: no two rows of the table have the same link, in every reachable state of
\* two collection runs executing at once with retention sweeps.
C9_LinkUnique == \A r1, r2 \in storage : r1.link = r2.link => r1 = r2

\* both runs have sent a batch holding the same link, to a table that has it
C9_Witness ==
    /\ \A r \in Runs : run[r].pc \in {"insert", "scan"} /\ run[r].i > 0
    /\ \E p \in SeqToSet(run[1].newsItems) :
         \E q \in SeqToSet(run[2].newsItems) : p.Link = q.Link /\ p.Link \in Links(storage)

\* the state of the first run when nothing has failed but the fetch of one source
OnlyFetchFailed(s) ==
    /\ left.runs = RunRuns - 1
    /\ left.faults = RunFaults - 1
    /\ wk[1][s].pc = "fetchErr"
    /\ obs.run[1].alone

\* C10: when the fetch of one source fails and nothing else does, that source
\* contributes no record, the workers of the other sources are not cancelled,
\* and once the run has returned it has reported success with the other
\* sources' records stored.
C10_PartialFailure ==
    \A s \in Sources :
        OnlyFetchFailed(s)
        => /\ wk[1][s].localItems = <<>>
           /\ \A p \in SeqToSet(run[1].newsItems) : p.Source # s
           /\ ~run[1].collectDone
           /\ \A o \in Sources \ {s} :
                wk[1][o].pc \notin {"cancelled", "fetchCancelled", "loopCancelled"}
           /\ run[1].pc = "done"
              => /\ run[1].outcome = "success"
                 /\ \A o \in Sources \ {s} :
                      /\ wk[1][o].pc = "appended"
                      /\ FeedLinks(o) \subseteq Links(storage)

\* the run has returned success with one source failed and the two records of
\* the other stored
C10_Witness ==
    \E s \in Sources :
        /\ OnlyFetchFailed(s)
        /\ run[1].pc = "done"
        /\ run[1].outcome = "success"
        /\ Cardinality(storage) = 2
        /\ \A row \in storage : row.source # s

(***************************************************************************)
(* Properties of the cache under a collection run (Spec).                  *)
(***************************************************************************)
\* the lists a storage query for the request of reader p would yield now
FreshLists(p) ==
    {BuildResponses(news) :
       news \in ListNews(storage, rd[p].req.Source, PageOffset(rd[p].req),
                         rd[p].req.Limit)}

\* C1: under every interleaving of GetNews calls with a run, a GetNews call
\* that starts after the run has reported success returns no list computed
\* from storage as it was before the run's inserts (unless, at least, the list
\* is one that storage still yields).
C1_FreshAfterSuccess ==
    \A p \in Readers :
        Returned(p) /\ rd[p].err = "none" /\ obs.rd[p].ops # <<>>
        => obs.rd[p].ver >= obs.rd[p].floor \/ rd[p].responses \in FreshLists(p)

\* a call started after the run's success is served, from the cache, a list
\* read before the run's inserts that the table no longer yields
C1_Witness ==
    \E p \in Readers :
        /\ Returned(p)
        /\ obs.rd[p].ops = <<"get:hit">>
        /\ obs.rd[p].ver < obs.rd[p].floor
        /\ run[1].outcome = "success"
        /\ rd[p].responses \notin FreshLists(p)
        /\ Cardinality(storage) > Cardinality(obs.run[1].startStore)

\* C2: when a run during which no GetNews call was in flight has returned
\* success, the cache holds no key of the news listings until a GetNews call
\* reads it, and the first call to read it misses and queries storage.
C2_CacheEmptyAfterRun ==
    obs.run[1].first # -1 /\ run[1].outcome = "success" /\ ~obs.run[1].overlap
    => IF obs.run[1].first = 0
       THEN \A k \in DOMAIN cache : ~MatchesNews(k)
       ELSE LET ops == obs.rd[obs.run[1].first].ops
            IN  /\ Len(ops) >= 1 => ops[1] \in {"get:miss", "get:err"}
                /\ Len(ops) >= 2 => ops[2] \in {"db:ok", "db:err"}

\* the run removed a key of the cache, and the first call after it, with the
\* parameters of that key, missed and read storage
C2_Witness ==
    /\ run[1].outcome = "success"
    /\ ~obs.run[1].overlap
    /\ left.reads = 0
    /\ obs.run[1].first \in Readers
    /\ \E p \in Readers :
         /\ p # obs.run[1].first
         /\ obs.rd[p].ops = <<"get:miss", "db:ok", "set:ok">>
         /\ rd[p].key = rd[obs.run[1].first].key
    /\ obs.rd[obs.run[1].first].ops = <<"get:miss", "db:ok", "set:ok">>

(***************************************************************************)
(* Properties of the run's outcome (SpecRun).                              *)
(***************************************************************************)
\* C11: when the collection deadline passed with a worker still running, the
\* run issues no batch insert and no cache invalidation, and what it reports is
\* the timeout error, whatever the workers had appended.
C11_TimeoutAllOrNothing ==
    obs.run[1].cut
    => /\ obs.run[1].ops = <<>>
       /\ run[1].pc = "done" => run[1].outcome = "timeout"

\* the deadline passed with a worker still running, and the run stored the
\* records appended, invalidated the cache and reported success
C11_Witness ==
    /\ obs.run[1].cut
    /\ run[1].pc = "done"
    /\ run[1].outcome = "success"
    /\ obs.run[1].grew
    /\ "inval:ok" \in SeqToSet(obs.run[1].ops)

\* the operations of a run that stopped at a failed batch after ok succeeded
RECURSIVE OkThenErr(_)
OkThenErr(ok) == IF ok = 0 THEN <<"insert:err">> ELSE <<"insert:ok">> \o OkThenErr(ok - 1)

\* the links of the first n records of a list
LinksUpTo(items, n) == {items[j].Link : j \in 1..Min(n, Len(items))}

\* C12: when the k-th batch insert of a run fails, the run ends there with an
\* error: the k-1 batches before it are the only ones sent, nothing is sent
\* after the failure, the cache invalidation is not attempted, and (no other
\* writer having touched the table) the rows of batches 1..k-1 are still in
\* storage together with every row that was there when the run started.
C12_BatchFailureStops ==
    "insert:err" \in SeqToSet(obs.run[1].ops)
    => /\ run[1].pc = "done"
       /\ run[1].outcome = "insertErr"
       /\ run[1].err # NoErr
       /\ obs.run[1].ops = OkThenErr(run[1].i \div BatchSize)
       /\ run[1].i < Len(run[1].newsItems)
       /\ obs.run[1].alone
          => /\ LinksUpTo(run[1].newsItems, run[1].i) \subseteq Links(storage)
             /\ obs.run[1].startStore \subseteq storage

\* a run over an empty table whose second batch failed after the first had
\* added rows
C12_Witness ==
    /\ run[1].pc = "done"
    /\ run[1].outcome = "insertErr"
    /\ run[1].i = BatchSize
    /\ obs.run[1].alone
    /\ obs.run[1].grew
    /\ obs.run[1].ops = <<"insert:ok", "insert:err">>
    /\ Cardinality(storage) = BatchSize

\* C13: the error returned by insertNewsWithBatch when its k-th batch fails
\* identifies the number k-1 of batches that had succeeded: two failures that
\* returned the same error stopped after the same number of batches.
C13_ErrorIdentifiesBatches ==
    \A e1 \in obs.fails : \A e2 \in obs.fails : e1.err = e2.err => e1.ok = e2.ok

\* a run stopped at its second batch, after one batch had succeeded
C13_Witness ==
    /\ run[1].pc = "done"
    /\ run[1].outcome = "insertErr"
    /\ run[1].err = BatchError(run[1].i, "db")
    /\ run[1].i \div BatchSize = 1
    /\ \E e \in obs.fails : e.ok = 1

\* the number of passes of the batch loop over a list of records
Batches(items) == (Len(items) + BatchSize - 1) \div BatchSize

\* C14: in every run the cache invalidation is attempted only after every batch
\* insert of the run has succeeded (all the batches of the collected records,
\* none of them failed), and the run reports success only after the
\* invalidation has returned without error.
C14_InvalidateAfterPersist ==
    LET ops == obs.run[1].ops
        n == Batches(run[1].newsItems)
    IN /\ \A j \in 1..Len(ops) :
             ops[j] = "inval" => /\ j = n + 1
                                 /\ \A k \in 1..(j - 1) : ops[k] = "insert:ok"
       /\ run[1].pc = "done" /\ run[1].outcome = "success"
          => /\ Len(ops) = n + 2
             /\ ops[n + 1] = "inval"
             /\ ops[n + 2] = "inval:ok"
             /\ run[1].err = NoErr

\* a run of two batches that ended in success
C14_Witness ==
    /\ run[1].pc = "done"
    /\ run[1].outcome = "success"
    /\ Batches(run[1].newsItems) = 2
    /\ obs.run[1].ops = <<"insert:ok", "insert:ok", "inval", "inval:ok">>
    /\ obs.run[1].grew

\* C15: if the cache invalidation fails after all batches were inserted, the
\* run reports failure, and (no other writer having touched the table) every
\* row the run inserted is in storage: each collected link has its row, and
\* nothing that was stored when the run started is gone.
C15_InvalidationFailure ==
    LET ops == obs.run[1].ops
    IN (ops # <<>> /\ ops[Len(ops)] = "inval:err")
       => /\ run[1].pc = "done"
          /\ run[1].outcome = "cacheErr"
          /\ run[1].err # NoErr
          /\ Len(ops) = Batches(run[1].newsItems) + 2
          /\ obs.run[1].alone
             => /\ LinksUpTo(run[1].newsItems, Len(run[1].newsItems)) \subseteq Links(storage)
                /\ obs.run[1].startStore \subseteq storage

\* a run that added rows in two batches and then failed to invalidate
C15_Witness ==
    /\ run[1].pc = "done"
    /\ run[1].outcome = "cacheErr"
    /\ obs.run[1].ops = <<"insert:ok", "insert:ok", "inval", "inval:err">>
    /\ obs.run[1].alone
    /\ obs.run[1].grew
    /\ Cardinality(storage) > BatchSize

\* C16: a stored row is never modified by a collection run. In every step a
\* row that is still stored has the title, link, source, image, publish time
\* and fetched-at it had; a row that is added has a link no stored row had;
\* and a step that sends a batch removes nothing.
C16_RowsNeverModified ==
    [][/\ \A a \in storage : \A b \in storage' : a.id = b.id => a = b
       /\ \A b \in storage' \ storage : b.link \notin Links(storage)
       /\ \A a \in storage : \A b \in storage' :
            a.link = b.link => a = b
       /\ Len(obs'.run[1].ops) > Len(obs.run[1].ops) => storage \subseteq storage'
      ]_vars

\* a run has delivered, in a later batch or a later run, a record whose link
\* has a stored row with another title, and the row has kept its own
C16_Witness ==
    /\ run[1].pc = "done"
    /\ run[1].outcome = "success"
    /\ obs.run[1].alone
    /\ \E j \in 1..Len(run[1].newsItems) : \E a \in storage :
         /\ a.link = run[1].newsItems[j].Link
         /\ a.title # run[1].newsItems[j].Title
         /\ a.fetched_at # now

(***************************************************************************)
(* Properties of GetNews at the limits of its inputs (SpecPage).           *)
(***************************************************************************)
\* C17: GetNews normalizes its paging inputs before any cache or storage
\* access: a page <= 0 becomes 1, a limit <= 0 or > 100 becomes 20, every
\* other page and limit is used unchanged; the cache key a call reads and
\* writes and the LIMIT and OFFSET of its storage query use these values.
C17_Normalized ==
    \A p \in Readers :
        (rd[p].pc # "idle" /\ Len(obs.rd[p].raw.Source) > 0)
        => LET raw == obs.rd[p].raw
               page == IF raw.Page <= 0 THEN 1 ELSE raw.Page
               limit == IF raw.Limit <= 0 \/ raw.Limit > 100 THEN 20 ELSE raw.Limit
           IN  /\ rd[p].key = redisKey(raw.Source, page, limit)
               /\ rd[p].key.page = page
               /\ rd[p].key.limit = limit
               /\ obs.rd[p].query.sent
                  => /\ obs.rd[p].query.Sources = raw.Source
                     /\ obs.rd[p].query.PageLimit = limit
                     /\ obs.rd[p].query.PageOffset = (page - 1) * limit
               /\ obs.rd[p].ops # <<>> /\ obs.rd[p].ops[1] # "get:hit" /\ Returned(p)
                  => obs.rd[p].query.sent

\* a call with page 0 and page size 101 has queried storage with offset 0 and
\* limit 20 and has written the cache under page 1 and limit 20
C17_Witness ==
    \E p \in Readers :
        /\ Returned(p)
        /\ obs.rd[p].raw.Page = 0
        /\ obs.rd[p].raw.Limit = 101
        /\ obs.rd[p].ops = <<"get:miss", "db:ok", "set:ok">>
        /\ obs.rd[p].query.PageLimit = 20
        /\ obs.rd[p].query.PageOffset = 0
        /\ rd[p].key.page = 1
        /\ rd[p].key.limit = 20
        /\ rd[p].key \in DOMAIN cache

(***************************************************************************)
(* Properties of the outcome of GetNews (SpecRead).                        *)
(***************************************************************************)
\* C18: GetNews returns an error if and only if the source filter is empty or
\* the storage query fails; a call whose storage query failed has made no
\* cache write, so no cache entry is written or changed by it.
C18_ErrorIff ==
    \A p \in Readers :
        LET ops == obs.rd[p].ops
        IN  /\ Returned(p)
               => (rd[p].err # "none"
                   <=> \/ Len(obs.rd[p].raw.Source) = 0
                       \/ "db:err" \in SeqToSet(ops))
            /\ "db:err" \in SeqToSet(ops)
               => /\ Returned(p)
                  /\ ops[Len(ops)] = "db:err"
                  /\ SeqToSet(ops) \cap {"set:ok", "set:err"} = {}
                  /\ rd[p].responses = <<>>

\* one call has returned the error of its storage query, another has returned
\* a list although its cache read failed
C18_Witness ==
    \E p \in Readers : \E q \in Readers :
        /\ Returned(p)
        /\ obs.rd[p].ops = <<"get:miss", "db:err">>
        /\ rd[p].err = "database"
        /\ Returned(q)
        /\ obs.rd[q].ops = <<"get:err", "db:ok", "set:ok">>
        /\ rd[q].err = "none"

\* C19: when storage returns zero rows for a query, GetNews returns an empty
\* list with no error, and a later GetNews with the same parameters is never
\* served as a cache hit from that empty result: a call served from the cache
\* returns a list that is not empty, and a call that finds the empty list under
\* its key goes on to query storage.
C19_EmptyNotServed ==
    \A p \in Readers :
        LET ops == obs.rd[p].ops
        IN  /\ (Returned(p) /\ "db:ok" \in SeqToSet(ops) /\ rd[p].news = <<>>)
               => rd[p].responses = <<>> /\ rd[p].err = "none"
            /\ (ops # <<>> /\ ops[1] = "get:hit")
               => rd[p].responses # <<>> /\ ~obs.rd[p].empty
            /\ (obs.rd[p].empty /\ Returned(p))
               => /\ Len(ops) >= 2
                  /\ ops[1] = "get:miss"
                  /\ ops[2] \in {"db:ok", "db:err"}

\* a call found the empty list an earlier call had cached under its key,
\* queried storage again and returned the empty list
C19_Witness ==
    \E p \in Readers :
        /\ Returned(p)
        /\ obs.rd[p].empty
        /\ obs.rd[p].ops = <<"get:miss", "db:ok", "set:ok">>
        /\ rd[p].responses = <<>>
        /\ rd[p].err = "none"

(***************************************************************************)
(* Properties of a run that could not read its sources (SpecRun).          *)
(***************************************************************************)
\* C20: if retrieving the source list fails, CollectNewsFromSource reports
\* that error at once: the run is over with the error, no worker was started,
\* no feed was fetched, nothing was collected, no batch was inserted and the
\* cache invalidation was not attempted.
C20_SourcesFailure ==
    run[1].outcome = "sourcesErr"
    => /\ run[1].pc = "done"
       /\ run[1].err # NoErr
       /\ \A s \in Sources : /\ wk[1][s].pc = "none"
                             /\ wk[1][s].items = <<>>
                             /\ wk[1][s].localItems = <<>>
       /\ run[1].newsItems = <<>>
       /\ run[1].i = 0
       /\ obs.run[1].ops = <<>>
       /\ ~obs.run[1].grew

\* the second run failed to read its sources, after a first run had stored rows
C20_Witness ==
    /\ run[1].pc = "done"
    /\ run[1].outcome = "sourcesErr"
    /\ run[1].err.cause = "db"
    /\ left.runs = RunRuns - 2
    /\ storage # {}

(***************************************************************************)
(* Properties of insertNewsWithBatch at its batch size (SpecBatch).        *)
(***************************************************************************)
\* the batches of a list, one after the other
RECURSIVE Flatten(_)
Flatten(bs) == IF bs = <<>> THEN <<>> ELSE Head(bs) \o Flatten(Tail(bs))

\* C21: for a merged collection of n records, when every insert succeeds the
\* batch persister issues exactly ceil(n/100) inserts (none when n = 0), each
\* of at least one and at most 100 records and all but the last of exactly
\* 100, and the batches concatenated in issue order equal the input sequence.
C21_Batching ==
    LET sent == obs.run[1].sent
        items == run[1].newsItems
        n == Len(items)
    IN  /\ \A k \in 1..Len(sent) :
              /\ Len(sent[k]) >= 1
              /\ Len(sent[k]) <= 100
              /\ k < Len(sent) => Len(sent[k]) = 100
        /\ Len(sent) <= (n + 99) \div 100
        /\ Flatten(sent) = SubSeq(items, 1, Len(Flatten(sent)))
        /\ Len(sent) < (n + 99) \div 100 => run[1].i < n /\ Len(Flatten(sent)) = 100 * Len(sent)
        /\ run[1].i >= n
           => /\ Len(sent) = (n + 99) \div 100
              /\ Flatten(sent) = items

\* a collection of 201 records has gone out in batches of 100, 100 and 1
C21_Witness ==
    /\ Len(run[1].newsItems) = 201
    /\ run[1].i >= 201
    /\ Len(obs.run[1].sent) = 3
    /\ Len(obs.run[1].sent[3]) = 1
    /\ Cardinality(storage) = 201

(***************************************************************************)
(* Properties of the workers and of the merged collection (SpecRun).       *)
(***************************************************************************)
\* list sub occurs in list as a run of neighbours
Contiguous(sub, list) ==
    \E k \in 0..(Len(list) - Len(sub)) : SubSeq(list, k + 1, k + Len(sub)) = sub

\* C22: a worker that observes, between two items of its feed, that the
\* deadline has elapsed exits early and contributes to the merged collection
\* the records it had accumulated up to that point.
C22_EarlyExitContributes ==
    \A s \in Sources :
        wk[1][s].pc = "loopCancelled"
        => Contiguous(wk[1][s].localItems, run[1].newsItems)

\* every worker has returned, one of them from the middle of its feed with
\* one record accumulated
C22_Witness ==
    /\ \A s \in Sources : WorkerReturned(wk[1][s])
    /\ \E s \in Sources :
         /\ wk[1][s].pc = "loopCancelled"
         /\ wk[1][s].idx = 1
         /\ Len(wk[1][s].localItems) = 1
         /\ wk[1][s].idx < Len(wk[1][s].items)
    /\ run[1].pc \in {"insert", "scan", "done"}

\* the workers of run 1 that reached their append
Appended == {s \in Sources : wk[1][s].pc = "appended"}

\* the orders in which the sources S can come
RECURSIVE Orders(_)
Orders(S) ==
    IF S = {} THEN {<<>>}
    ELSE UNION {{<<s>> \o o : o \in Orders(S \ {s})} : s \in S}

\* the local lists of the workers, one after the other in the given order
RECURSIVE Concat(_)
Concat(order) ==
    IF order = <<>> THEN <<>>
    ELSE wk[1][Head(order)].localItems \o Concat(Tail(order))

\* C23: under every interleaving of the per-source workers, once all workers
\* have returned the merged collection contains exactly the records of every
\* worker that reached its append, no record lost and none duplicated, each
\* source's records contiguous and in feed order (the whole feed of the
\* source, normalised): it is the local lists of these workers one after the
\* other, in one of the orders the workers can come in.
C23_MergedExactly ==
    (\A s \in Sources : WorkerReturned(wk[1][s])) /\ run[1].pc # "idle"
    => /\ \E order \in Orders(Appended) : run[1].newsItems = Concat(order)
       /\ \A s \in Appended :
            wk[1][s].localItems =
                [j \in 1..Len(feeds[s]) |->
                   [Title |-> feeds[s][j].Title, Link |-> sanitizeLink(feeds[s][j].Link),
                    Source |-> s, ImageUrl |-> extractImage(feeds[s][j]),
                    PublishDate |-> feeds[s][j].PublishedParsed]]

\* both workers have appended feeds of two records each, the worker of the
\* second source first
C23_Witness ==
    /\ Appended = Sources
    /\ Len(run[1].newsItems) = 4
    /\ run[1].newsItems = wk[1][SrcB].localItems \o wk[1][SrcA].localItems
    /\ run[1].mu = <<>>

(***************************************************************************)
(* Properties of the paging arithmetic of GetNews (SpecWide).              *)
(***************************************************************************)
\* C24: for every page >= 1 representable as a 32-bit signed integer and every
\* limit in 1..100, the offset GetNews passes to storage equals
\* (page-1)*limit and is non-negative (the 32-bit multiplication does not
\* wrap around), and the limit passed equals the normalized limit. (The
\* offset is a multiple of the limit whose quotient is page-1.)
C24_OffsetExact ==
    \A p \in Readers :
        LET raw == obs.rd[p].raw
            q == obs.rd[p].query
        IN  (q.sent /\ raw.Page >= 1 /\ raw.Limit >= 1 /\ raw.Limit <= 100)
            => /\ q.PageLimit = raw.Limit
               /\ q.PageOffset >= 0
               /\ q.PageOffset % raw.Limit = 0
               /\ q.PageOffset \div raw.Limit = raw.Page - 1

\* a call for page 1073741825 with limit 4 has queried storage with offset 0
\* and has returned the rows of the first page
C24_Witness ==
    \E p \in Readers :
        /\ Returned(p)
        /\ obs.rd[p].raw.Page = 1073741825
        /\ obs.rd[p].raw.Limit = 4
        /\ obs.rd[p].query.sent
        /\ obs.rd[p].query.PageOffset = 0
        /\ rd[p].err = "none"
        /\ rd[p].responses # <<>>

(***************************************************************************)
(* Properties of the cache key (SpecRead).                                 *)
(***************************************************************************)
\* reader p is in a call that has formed its cache key
HasKey(p) == rd[p].pc \in {"get", "db", "set", "done"} /\ rd[p].key # NoKey

\* C25: two GetNews requests read and write the same cache key if and only if
\* their normalized (ordered source list, page, limit) tuples are equal, for
\* all source names including names that contain spaces or brackets.
C25_KeyInjective ==
    \A p \in Readers : \A q \in Readers :
        (HasKey(p) /\ HasKey(q))
        => (rd[p].key = rd[q].key <=> rd[p].req = rd[q].req)

\* a call whose filter is the one source "a b" has been served, as a cache
\* hit, the list another call had cached for the two sources "a" and "b"
C25_Witness ==
    \E p \in Readers :
        /\ Returned(p)
        /\ rd[p].req.Source = <<SrcAB>>
        /\ obs.rd[p].ops = <<"get:hit">>
        /\ rd[p].err = "none"
        /\ \E j \in 1..Len(rd[p].responses) : rd[p].responses[j].Source # SrcAB

(***************************************************************************)
(* Properties of links (SpecRun).                                          *)
(***************************************************************************)
\* the positions of the records of a list whose link is empty
EmptyLinked(items) == {j \in 1..Len(items) : items[j].Link = <<>>}

\* C26: records with an empty link are not rejected or deduplicated: when a
\* run over an empty table has inserted all its batches, there are as many
\* rows with an empty link as the run delivered records with an empty link.
C26_EmptyLinksKept ==
    /\ obs.run[1].startStore = {}
    /\ obs.run[1].alone
    /\ InsertsDone(1)
    /\ run[1].outcome # "timeout"
    => Cardinality({r \in storage : r.link = <<>>})
         = Cardinality(EmptyLinked(run[1].newsItems))

\* a run has delivered two records whose sanitized link is empty, with
\* different titles, and has ended in success with one row of empty link
C26_Witness ==
    /\ obs.run[1].startStore = {}
    /\ obs.run[1].alone
    /\ run[1].pc = "done"
    /\ run[1].outcome = "success"
    /\ Cardinality(EmptyLinked(run[1].newsItems)) = 2
    /\ \E j \in EmptyLinked(run[1].newsItems) : \E k \in EmptyLinked(run[1].newsItems) :
         run[1].newsItems[j].Title # run[1].newsItems[k].Title
    /\ Cardinality({r \in storage : r.link = <<>>}) = 1

(***************************************************************************)
(* Properties of sanitizeLink (SpecLink).                                  *)
(***************************************************************************)
\* C27: for every raw link, sanitizeLink returns the text after the last '|'
\* of the link, and the whole link unchanged when it contains no '|' (empty
\* in, empty out); consequently the result never contains '|' and
\* sanitizeLink applied to its own result returns it unchanged. Stated of the
\* link of the record a worker has built from an item.
C27_LastSegment ==
    \A s \in Sources :
        (wk[1][s].pc = "loop" /\ wk[1][s].idx = 1)
        => LET raw == wk[1][s].items[1].Link
               out == wk[1][s].localItems[1].Link
               bars == {k \in 1..Len(raw) : raw[k] = "|"}
           IN  /\ bars = {} => out = raw
               /\ bars # {}
                  => \E k \in bars :
                       /\ \A j \in bars : j <= k
                       /\ out = [j \in 1..(Len(raw) - k) |-> raw[k + j]]
               /\ raw = <<>> => out = <<>>
               /\ \A j \in 1..Len(out) : out[j] # "|"
               /\ sanitizeLink(out) = out

\* the record built from the raw link "y||x" has the link "x"
C27_Witness ==
    /\ wk[1][SrcA].pc = "loop"
    /\ wk[1][SrcA].idx = 1
    /\ wk[1][SrcA].items[1].Link = <<"y", "|", "|", "x">>
    /\ wk[1][SrcA].localItems[1].Link = <<"x">>

(***************************************************************************)
(* Termination of a run (SpecLive).                                        *)
(***************************************************************************)
\* the main goroutine of run 1 is before or in the select on done and
\* collectCtx.Done()
Waiting == run[1].pc \in {"spawned", "wait", "woken"}

\* C28: every CollectNewsFromSource run eventually reports exactly one
\* terminal outcome (success, timeout error, or failure), the catalog, storage
\* and cache calls returning; the wait for the workers ends once all workers
\* have returned or the shared deadline has elapsed. (The outcome of a call
\* stays what it is in every step in which no new call starts.)
C28_RunTerminates ==
    /\ (run[1].pc \in {"spawned", "wait", "woken", "insert", "scan"}) ~> (run[1].pc = "done")
    /\ (Waiting /\ run[1].collectDone) ~> ~Waiting
    /\ (Waiting /\ \A s \in Sources :
                      wk[1][s].pc \in {"cancelled", "fetchErr", "fetchCancelled",
                                       "loopCancelled", "appended"}) ~> ~Waiting
    /\ [](run[1].pc = "done"
          => /\ run[1].outcome \in {"success", "timeout", "sourcesErr", "insertErr",
                                     "cacheErr"}
             /\ run[1].outcome = "success" <=> run[1].err = NoErr)
    /\ [][(run[1].pc = "done" /\ run'[1].pc = "done" /\ left'.runs = left.runs)
            => run'[1].outcome = run[1].outcome /\ run'[1].err = run[1].err]_vars

\* a run has ended in the timeout error while a worker was still fetching
C28_Witness ==
    /\ run[1].pc = "done"
    /\ run[1].outcome = "timeout"
    /\ \E s \in Sources : wk[1][s].pc = "fetch"

(***************************************************************************)
(* Properties of the hand-over from the workers to the batch persister     *)
(* (SpecRun).                                                              *)
(***************************************************************************)
\* run 1 is past the select by the case <-done
PastDone ==
    \/ run[1].pc \in {"insert", "scan"}
    \/ run[1].pc = "done" /\ run[1].outcome \in {"success", "insertErr", "cacheErr"}

\* C29: the first batch insert of a run is issued only after every worker of
\* that run has returned, so the merged collection is never appended to while
\* or after the batch persister reads it; a worker that is still running
\* after a timeout can change only the discarded collection, never storage or
\* the cache. (A step in which no new call starts is one that leaves the
\* number of calls still to come unchanged.)
C29_InsertAfterWorkers ==
    /\ [](PastDone
          => \A s \in Sources :
               wk[1][s].pc \in {"cancelled", "fetchErr", "fetchCancelled",
                                "loopCancelled", "appended"})
    /\ [](obs.run[1].ops # <<>> => PastDone)
    /\ [][(PastDone /\ left'.runs = left.runs)
            => run'[1].newsItems = run[1].newsItems /\ wk' = wk]_vars
    /\ [][(run[1].pc = "done" /\ run[1].outcome = "timeout" /\ wk' # wk
           /\ left'.runs = left.runs)
            => /\ storage' = storage
               /\ cache' = cache
               /\ run'[1].outcome = "timeout"
               /\ obs'.run[1].ops = <<>>]_vars

\* a worker has appended its records to the collection of a run that had
\* already returned the timeout error; nothing has been stored
C29_Witness ==
    /\ run[1].pc = "done"
    /\ run[1].outcome = "timeout"
    /\ run[1].newsItems # <<>>
    /\ \E s \in Sources : wk[1][s].pc = "appended"
    /\ storage = {}
    /\ obs.run[1].ops = <<>>

(***************************************************************************)
(* Properties of RemoveOldNews and the cache (SpecRead).                   *)
(***************************************************************************)
\* C30: RemoveOldNews deletes storage rows but performs no cache operation:
\* every cache entry is left unchanged by it, and a GetNews cache hit returns
\* the list under the key as it is, so that it can return records that the
\* sweep has already deleted from storage.
C30_SweepLeavesCache ==
    [][/\ left'.sweeps < left.sweeps
          => /\ cache' = cache
             /\ storage' \subseteq storage
       /\ \A p \in Readers :
            (obs.rd[p].ops = <<>> /\ obs'.rd[p].ops = <<"get:hit">>)
            => /\ rd[p].key \in DOMAIN cache
               /\ rd'[p].responses = cache[rd[p].key]
               /\ storage' = storage
               /\ cache' = cache
      ]_vars

\* after a sweep that deleted rows, a call has been served as a cache hit a
\* list holding a record whose row is no longer stored
C30_Witness ==
    /\ left.sweeps < ReadSweeps
    /\ \E p \in Readers :
         /\ Returned(p)
         /\ obs.rd[p].ops = <<"get:hit">>
         /\ obs.rd[p].gone
         /\ rd[p].err = "none"
         /\ \E j \in 1..Len(rd[p].responses) : rd[p].responses[j].Link \notin Links(storage)
         /\ rd[p].key \in DOMAIN cache
         /\ cache[rd[p].key] = rd[p].responses

====
